---- MODULE Spec2Model ----
(***************************************************************************)
(* gy: YAML path extractor and lister (src/gy.go).                         *)
(*                                                                         *)
(* A string is a sequence of one-character strings, so that indexing,      *)
(* slicing and concatenation are those of Go's strings.  Go's 0-based      *)
(* offsets are kept 1-based here: pattern[i] in Go is pattern[i+1] below.  *)
(***************************************************************************)
EXTENDS Integers, Sequences, FiniteSets, TLC

VARIABLES
    args,       \* flag.Args(): <<>> or <<pattern>> (a filename does not change the flow)
    version,    \* -V
    useTrim,    \* --trim || -t
    useList,    \* --list || -l
    maxDepth,   \* --depth
    node,       \* main's yaml.Node, the parsed document (zero before parsing)
    pattern,    \* extractPath's pattern, after the leading dot is removed
    parts,      \* extractPath's parts
    partIndex,  \* extractPath's partIndex (1-based)
    current,    \* extractPath's current
    extracted,  \* main's extracted
    result,     \* main's result
    out,        \* what was printed to standard output, in order
    exit,       \* the exit status, -1 while running
    pc          \* the position in the program

vars == <<args, version, useTrim, useList, maxDepth, node, pattern, parts,
          partIndex, current, extracted, result, out, exit, pc>>

(***************************************************************************)
(* Bounds of the model.                                                    *)
(***************************************************************************)
\* longest pattern, in characters, given to splitPath alone
MaxLen == 5
\* most pieces a pattern of an invocation is made of
MaxParts == 3
\* most pieces a pattern given to wrapInPath alone is made of
MaxWrapParts == 3
\* deepest nesting of a tree given to listNode alone
MaxListDepth == 3

(***************************************************************************)
(* Strings.                                                                *)
(***************************************************************************)
Digits == <<"0", "1", "2", "3", "4", "5", "6", "7", "8", "9">>

IsDigit(c) == \E d \in 1..10 : Digits[d] = c

DigitVal(c) == (CHOOSE d \in 1..10 : Digits[d] = c) - 1

RECURSIVE DigitsVal(_)
DigitsVal(s) ==
    IF s = <<>> THEN 0
    ELSE 10 * DigitsVal(SubSeq(s, 1, Len(s) - 1)) + DigitVal(s[Len(s)])

\* strconv.Atoi, err == nil: an optional sign, then one or more decimal digits.
\* (The patterns of the model are far shorter than the 19 digits an int holds.)
AtoiOk(s) ==
    LET body == IF Len(s) > 0 /\ s[1] \in {"+", "-"} THEN Tail(s) ELSE s
    IN  Len(body) > 0 /\ \A i \in 1..Len(body) : IsDigit(body[i])

\* strconv.Atoi, the value (when AtoiOk)
AtoiVal(s) ==
    IF s[1] = "-" THEN 0 - DigitsVal(Tail(s))
    ELSE IF s[1] = "+" THEN DigitsVal(Tail(s))
    ELSE DigitsVal(s)

\* fmt's %d of a non-negative int
RECURSIVE Itoa(_)
Itoa(n) == IF n < 10 THEN <<Digits[n + 1]>> ELSE Itoa(n \div 10) \o <<Digits[(n % 10) + 1]>>

RECURSIVE Concat(_)
Concat(ss) == IF ss = <<>> THEN <<>> ELSE Head(ss) \o Concat(Tail(ss))

\* every sequence of at most n elements of S
RECURSIVE SeqsUpTo(_, _)
SeqsUpTo(S, n) ==
    IF n = 0 THEN {<<>>}
    ELSE LET shorter == SeqsUpTo(S, n - 1)
         IN  shorter \cup {Append(s, x) : s \in shorter, x \in S}

(***************************************************************************)
(* splitPath                                                               *)
(***************************************************************************)
\* variant: the flush without its "i > start" guard
FlushAlways(ps, p, start, i) == Append(ps, SubSeq(p, start, i - 1))

\* "if i > start { parts = append(parts, pattern[start:i]) }"
FlushPending(ps, p, start, i) ==
    IF i > start THEN Append(ps, SubSeq(p, start, i - 1)) ELSE ps

\* the loop of splitPath from offset i on, and the flush after it
RECURSIVE splitLoop(_, _, _, _, _)
splitLoop(p, i, start, inBracket, ps) ==
    IF i > Len(p)
    THEN IF start <= Len(p) THEN Append(ps, SubSeq(p, start, Len(p))) ELSE ps
    ELSE CASE p[i] = "[" /\ ~inBracket ->
                splitLoop(p, i + 1, i, TRUE, FlushPending(ps, p, start, i))
           [] p[i] = "]" /\ inBracket ->
                splitLoop(p, i + 1, i + 1, FALSE, Append(ps, SubSeq(p, start, i)))
           [] p[i] = "." /\ ~inBracket ->
                splitLoop(p, i + 1, i + 1, inBracket, FlushPending(ps, p, start, i))
           [] OTHER ->
                splitLoop(p, i + 1, start, inBracket, ps)

splitPath(p) == splitLoop(p, 1, 1, FALSE, <<>>)

\* "if len(pattern) > 0 && pattern[0] == '.' { pattern = pattern[1:] }"
StripDot(p) == IF Len(p) > 0 /\ p[1] = "." THEN Tail(p) ELSE p

(***************************************************************************)
(* yaml.Node                                                               *)
(***************************************************************************)
Node(k, v, t, c) == [Kind |-> k, Value |-> v, Tag |-> t, Content |-> c]

\* a nil *yaml.Node
NilNode == Node("nil", <<>>, "", <<>>)

\* the zero yaml.Node ("var node yaml.Node")
ZeroNode == Node("zero", <<>>, "", <<>>)

\* the nodes yaml.Unmarshal builds
Str(v) == Node("ScalarNode", v, "!!str", <<>>)

AliasTo == Node("AliasNode", <<>>, "", <<>>)

Mapping(c) == Node("MappingNode", <<>>, "!!map", c)

Sequence(c) == Node("SequenceNode", <<>>, "!!seq", c)

Document(c) == Node("DocumentNode", <<>>, "", <<c>>)

(***************************************************************************)
(* extractPath                                                             *)
(***************************************************************************)
\* what one pass of the loop does: go on with (current, partIndex), or return
Continue(c, i) == [returns |-> FALSE, current |-> c, partIndex |-> i]

Return(n) == [returns |-> TRUE, current |-> n, partIndex |-> 0]

\* variant: the root path unwraps a Document
RootUnwrapped(n) ==
    IF n.Kind = "DocumentNode" /\ Len(n.Content) > 0 THEN n.Content[1] ELSE n

\* "if pattern == "" { return node }"
RootNode(n) == n

\* variant: unwrapping a Document consumes the segment
StepDocumentConsumes(c, i) ==
    IF Len(c.Content) > 0 THEN Continue(c.Content[1], i + 1) ELSE Return(NilNode)

\* case yaml.DocumentNode
StepDocument(c, i) ==
    IF Len(c.Content) > 0 THEN Continue(c.Content[1], i) ELSE Return(NilNode)

\* variant: the scan without its break, the last matching pair wins
RECURSIVE MapLastFrom(_, _, _, _)
MapLastFrom(content, part, i, found) ==
    IF i > Len(content) THEN found
    ELSE IF i + 1 <= Len(content) /\ content[i].Value = part
         THEN MapLastFrom(content, part, i + 2, i + 1)
         ELSE MapLastFrom(content, part, i + 2, found)

MapLast(content, part) == MapLastFrom(content, part, 1, 0)

\* the scan of a mapping's pairs from offset i on (i is 1, 3, 5, ...):
\* the index of the value of the first pair whose key is part, 0 if none
RECURSIVE MapScanFrom(_, _, _)
MapScanFrom(content, part, i) ==
    IF i > Len(content) THEN 0
    ELSE IF i + 1 <= Len(content) /\ content[i].Value = part
         THEN i + 1
         ELSE MapScanFrom(content, part, i + 2)

MapScan(content, part) == MapScanFrom(content, part, 1)

\* case yaml.MappingNode
StepMapping(c, part, i) ==
    LET hit == MapScan(c.Content, part)
    IN  IF hit # 0 THEN Continue(c.Content[hit], i + 1) ELSE Return(NilNode)

\* variant: an index is accepted without its brackets
StepSequenceBareIndex(c, part, i) ==
    LET indexStr == IF Len(part) > 2 /\ part[1] = "[" /\ part[Len(part)] = "]"
                    THEN SubSeq(part, 2, Len(part) - 1)
                    ELSE part
    IN  IF \/ ~AtoiOk(indexStr)
           \/ AtoiVal(indexStr) < 0
           \/ AtoiVal(indexStr) >= Len(c.Content)
        THEN Return(NilNode)
        ELSE Continue(c.Content[AtoiVal(indexStr) + 1], i + 1)

\* case yaml.SequenceNode
StepSequence(c, part, i) ==
    IF Len(part) > 2 /\ part[1] = "[" /\ part[Len(part)] = "]"
    THEN LET indexStr == SubSeq(part, 2, Len(part) - 1)
         IN  IF \/ ~AtoiOk(indexStr)
                \/ AtoiVal(indexStr) < 0
                \/ AtoiVal(indexStr) >= Len(c.Content)
             THEN Return(NilNode)
             ELSE Continue(c.Content[AtoiVal(indexStr) + 1], i + 1)
    ELSE Return(NilNode)

\* variant: the node reached so far is returned
StepOtherPartial(c) == Return(c)

\* default: a scalar, an alias, the zero node
StepOther(c) == Return(NilNode)

\* one pass of the loop "for partIndex := 0; partIndex < len(parts); { ... }"
\* (every case that does not return sets processed, so the closing
\* "if !processed { partIndex++ }" never runs)
ExtractIter(ps, c, i) ==
    LET part == ps[i]
    IN  IF part = <<>> THEN Continue(c, i + 1)
        ELSE IF c = NilNode THEN Return(NilNode)
        ELSE CASE c.Kind = "DocumentNode" -> StepDocument(c, i)
               [] c.Kind = "MappingNode" -> StepMapping(c, part, i)
               [] c.Kind = "SequenceNode" -> StepSequence(c, part, i)
               [] OTHER -> StepOther(c)

RECURSIVE extractLoop(_, _, _)
extractLoop(ps, c, i) ==
    IF i > Len(ps) THEN c
    ELSE LET r == ExtractIter(ps, c, i)
         IN  IF r.returns THEN r.current ELSE extractLoop(ps, r.current, r.partIndex)

\* extractPath as a whole
extractPath(n, p) ==
    IF StripDot(p) = <<>> THEN RootNode(n)
    ELSE extractLoop(splitPath(StripDot(p)), n, 1)

(***************************************************************************)
(* wrapInPath                                                              *)
(***************************************************************************)
\* &yaml.Node{Kind: yaml.ScalarNode, Value: "null", Tag: "!!null"}
NullPlaceholder == Node("ScalarNode", <<"n", "u", "l", "l">>, "!!null", <<>>)

\* variant: "j <= index"
PlaceholdersOneMore(index) ==
    IF index + 1 <= 0 THEN <<>> ELSE [j \in 1..(index + 1) |-> NullPlaceholder]

\* "for j := 0; j < index; j++ { seqNode.Content = append(..., null) }"
Placeholders(index) ==
    IF index <= 0 THEN <<>> ELSE [j \in 1..index |-> NullPlaceholder]

\* the sequence node built for an index segment whose content parsed
WrapIndex(cur, index) ==
    Node("SequenceNode", <<>>, "", Append(Placeholders(index), cur))

\* the mapping node built for any other segment
WrapKey(cur, part) ==
    Node("MappingNode", <<>>, "", <<Node("ScalarNode", part, "!!str", <<>>), cur>>)

\* "len(part) > 0 && part[0] == '[' && part[len(part)-1] == ']'"
IsBracketed(part) == Len(part) > 0 /\ part[1] = "[" /\ part[Len(part)] = "]"

\* the loop "for i := len(parts) - 1; i >= 0; i--" from index i down
RECURSIVE wrapLoop(_, _, _, _)
wrapLoop(ps, i, cur, ex) ==
    IF i < 1 THEN cur
    ELSE IF IsBracketed(ps[i])
         THEN LET indexStr == SubSeq(ps[i], 2, Len(ps[i]) - 1)
              IN  IF AtoiOk(indexStr)
                  THEN wrapLoop(ps, i - 1, WrapIndex(cur, AtoiVal(indexStr)), ex)
                  ELSE ex
         ELSE wrapLoop(ps, i - 1, WrapKey(cur, ps[i]), ex)

wrapInPath(root, p, ex) ==
    LET ps == splitPath(StripDot(p)) IN wrapLoop(ps, Len(ps), ex, ex)

(***************************************************************************)
(* listNode: the lines it prints, in order                                 *)
(***************************************************************************)
\* variant: "currentDepth > maxDepth"
DepthReachedLate(maxD, cur) == maxD > 0 /\ cur > maxD

\* "maxDepth > 0 && currentDepth >= maxDepth"
DepthReached(maxD, cur) == maxD > 0 /\ cur >= maxD

RECURSIVE listNode(_, _, _, _)
RECURSIVE listPairsFrom(_, _, _, _, _)
RECURSIVE listItemsFrom(_, _, _, _, _)
listNode(n, prefix, maxD, cur) ==
    IF n = NilNode \/ DepthReached(maxD, cur) THEN <<>>
    ELSE CASE n.Kind = "DocumentNode" ->
                IF Len(n.Content) > 0
                THEN listNode(n.Content[1], prefix, maxD, cur)
                ELSE <<>>
           [] n.Kind = "MappingNode" -> listPairsFrom(n, 1, prefix, maxD, cur)
           [] n.Kind = "SequenceNode" -> listItemsFrom(n, 1, prefix, maxD, cur)
           [] OTHER -> <<>>

\* "for i := 0; i < len(node.Content); i += 2" from offset i on
listPairsFrom(n, i, prefix, maxD, cur) ==
    IF i > Len(n.Content) THEN <<>>
    ELSE IF i + 1 <= Len(n.Content)
         THEN <<prefix \o n.Content[i].Value>>
              \o listNode(n.Content[i + 1], prefix \o <<" ", " ">>, maxD, cur + 1)
              \o listPairsFrom(n, i + 2, prefix, maxD, cur)
         ELSE listPairsFrom(n, i + 2, prefix, maxD, cur)

\* "for i, item := range node.Content" from offset i on
listItemsFrom(n, i, prefix, maxD, cur) ==
    IF i > Len(n.Content) THEN <<>>
    ELSE <<prefix \o <<"[">> \o Itoa(i - 1) \o <<"]">> >>
         \o listNode(n.Content[i], prefix \o <<" ", " ">>, maxD, cur + 1)
         \o listItemsFrom(n, i + 1, prefix, maxD, cur)

(***************************************************************************)
(* What is printed.                                                        *)
(***************************************************************************)
PrintVersion == [print |-> "version", text |-> <<>>, yaml |-> NilNode]

PrintUsage == [print |-> "usage", text |-> <<>>, yaml |-> NilNode]

\* fmt.Printf("Path not found: %s\n", pattern)
PrintNotFound(p) == [print |-> "not-found", text |-> p, yaml |-> NilNode]

\* one line of listNode
PrintLine(l) == [print |-> "line", text |-> l, yaml |-> NilNode]

\* fmt.Print(string(output)), output the serialization of n by yaml.Marshal
PrintYaml(n) == [print |-> "yaml", text |-> <<>>, yaml |-> n]

PrintLines(ls) == [k \in 1..Len(ls) |-> PrintLine(ls[k])]

(***************************************************************************)
(* The inputs of an invocation.                                            *)
(***************************************************************************)
V == Str(<<"v">>)

W == Str(<<"w">>)

\* mapping keys: a bare key, and keys that read as bracket tokens
Keys == { <<"a">>, <<"[", "0", "]">>, <<"[", "-", "1", "]">>, <<"[", "x", "]">> }

Values == { V, AliasTo, Sequence(<<V, W>>), Mapping(<<Str(<<"a">>), W>>) }

\* the top-level content: a leaf; a mapping of one pair; a mapping of two
\* pairs (with every choice of keys, the same key twice included); a sequence
\* of one or two elements
Roots ==
    {V, AliasTo}
    \cup { Mapping(<<Str(k), x>>) : k \in Keys, x \in Values }
    \cup { Mapping(<<Str(k1), V, Str(k2), W>>) : k1 \in Keys, k2 \in Keys }
    \cup { Sequence(<<x>>) : x \in Values }
    \cup { Sequence(<<V, x>>) : x \in Values }

\* what yaml.Unmarshal leaves in node: a Document holding the top-level
\* content, or the zero node when the input holds no document
Docs == { Document(r) : r \in Roots } \cup {ZeroNode}

\* the pieces a pattern is made of
Pieces == { <<"a">>, <<"1">>, <<".">>, <<"[", "0", "]">>, <<"[", "1", "]">>,
            <<"[", "-", "1", "]">>, <<"[", "x", "]">>, <<"[", "]">> }

Patterns == { Concat(ps) : ps \in SeqsUpTo(Pieces, MaxParts) }

\* --depth: unlimited, and the default
DepthArgs == {0, 1}

(***************************************************************************)
(* main                                                                    *)
(***************************************************************************)
Init ==
    /\ args \in {<<>>} \cup { <<p>> : p \in Patterns }
    /\ version \in BOOLEAN
    /\ useTrim \in BOOLEAN
    /\ useList \in BOOLEAN
    /\ maxDepth \in DepthArgs
    /\ node = ZeroNode
    /\ pattern = <<>>
    /\ parts = <<>>
    /\ partIndex = 1
    /\ current = NilNode
    /\ extracted = NilNode
    /\ result = NilNode
    /\ out = <<>>
    /\ exit = -1
    /\ pc = "main"

\* "if *version { ...; os.Exit(0) }"
Version ==
    /\ pc = "main" /\ version
    /\ out' = <<PrintVersion>>
    /\ exit' = 0
    /\ pc' = "exit"
    /\ UNCHANGED <<args, version, useTrim, useList, maxDepth, node, pattern,
                   parts, partIndex, current, extracted, result>>

\* "if len(args) < 1 { ...; os.Exit(1) }"
Usage ==
    /\ pc = "main" /\ ~version /\ Len(args) < 1
    /\ out' = <<PrintUsage>>
    /\ exit' = 1
    /\ pc' = "exit"
    /\ UNCHANGED <<args, version, useTrim, useList, maxDepth, node, pattern,
                   parts, partIndex, current, extracted, result>>

\* the input is read and parsed
ReadInput ==
    /\ pc = "main" /\ ~version /\ Len(args) >= 1
    /\ \E d \in Docs : node' = d
    /\ pc' = "parsed"
    /\ UNCHANGED <<args, version, useTrim, useList, maxDepth, pattern, parts,
                   partIndex, current, extracted, result, out, exit>>

\* "if err != nil { panic(err) }": the input cannot be read, or does not parse
InputFails ==
    /\ pc = "main" /\ ~version /\ Len(args) >= 1
    /\ exit' = 2
    /\ pc' = "panic"
    /\ UNCHANGED <<args, version, useTrim, useList, maxDepth, node, pattern,
                   parts, partIndex, current, extracted, result, out>>

\* extractPath(&node, pattern), up to its loop
ExtractEnter ==
    /\ pc = "parsed"
    /\ pattern' = StripDot(args[1])
    /\ IF pattern' = <<>>
       THEN /\ extracted' = RootNode(node)
            /\ pc' = "extracted"
            /\ UNCHANGED <<parts, current, partIndex>>
       ELSE /\ parts' = splitPath(pattern')
            /\ current' = node
            /\ partIndex' = 1
            /\ pc' = "loop"
            /\ UNCHANGED extracted
    /\ UNCHANGED <<args, version, useTrim, useList, maxDepth, node, result,
                   out, exit>>

\* one pass of extractPath's loop
ExtractStep ==
    /\ pc = "loop" /\ partIndex <= Len(parts)
    /\ LET r == ExtractIter(parts, current, partIndex)
       IN  IF r.returns
           THEN /\ extracted' = r.current
                /\ pc' = "extracted"
                /\ UNCHANGED <<current, partIndex>>
           ELSE /\ current' = r.current
                /\ partIndex' = r.partIndex
                /\ UNCHANGED <<extracted, pc>>
    /\ UNCHANGED <<args, version, useTrim, useList, maxDepth, node, pattern,
                   parts, result, out, exit>>

\* the loop ends: "return current"
ExtractDone ==
    /\ pc = "loop" /\ partIndex > Len(parts)
    /\ extracted' = current
    /\ pc' = "extracted"
    /\ UNCHANGED <<args, version, useTrim, useList, maxDepth, node, pattern,
                   parts, partIndex, current, result, out, exit>>

\* "if extracted == nil { ...; os.Exit(1) }"
NotFound ==
    /\ pc = "extracted" /\ extracted = NilNode
    /\ out' = <<PrintNotFound(args[1])>>
    /\ exit' = 1
    /\ pc' = "exit"
    /\ UNCHANGED <<args, version, useTrim, useList, maxDepth, node, pattern,
                   parts, partIndex, current, extracted, result>>

\* variant: the list mode without its os.Exit(0), falling through to the output
ListThenYaml ==
    /\ pc = "extracted" /\ extracted # NilNode /\ useList
    /\ result' = IF useTrim THEN extracted ELSE wrapInPath(node, args[1], extracted)
    /\ out' = Append(PrintLines(listNode(extracted, <<>>, maxDepth, 0)),
                     PrintYaml(result'))
    /\ exit' = 0
    /\ pc' = "exit"
    /\ UNCHANGED <<args, version, useTrim, useList, maxDepth, node, pattern,
                   parts, partIndex, current, extracted>>

\* "if useList { listNode(extracted, "", maxDepth, 0); os.Exit(0) }"
List ==
    /\ pc = "extracted" /\ extracted # NilNode /\ useList
    /\ out' = PrintLines(listNode(extracted, <<>>, maxDepth, 0))
    /\ exit' = 0
    /\ pc' = "exit"
    /\ UNCHANGED <<args, version, useTrim, useList, maxDepth, node, pattern,
                   parts, partIndex, current, extracted, result>>

\* the normal extraction mode, to the end of main
Output ==
    /\ pc = "extracted" /\ extracted # NilNode /\ ~useList
    /\ result' = IF useTrim THEN extracted ELSE wrapInPath(node, args[1], extracted)
    /\ out' = <<PrintYaml(result')>>
    /\ exit' = 0
    /\ pc' = "exit"
    /\ UNCHANGED <<args, version, useTrim, useList, maxDepth, node, pattern,
                   parts, partIndex, current, extracted>>

Next ==
    \/ Version
    \/ Usage
    \/ ReadInput
    \/ InputFails
    \/ ExtractEnter
    \/ ExtractStep
    \/ ExtractDone
    \/ NotFound
    \/ List
    \/ Output

Spec == Init /\ [][Next]_vars

(***************************************************************************)
(* splitPath alone: every pattern of at most MaxLen characters.            *)
(***************************************************************************)
SplitChars == {"a", ".", "[", "]"}

InitSplit ==
    /\ pattern \in SeqsUpTo(SplitChars, MaxLen)
    /\ pc = "split"
    /\ parts = <<>>
    /\ args = <<>> /\ version = FALSE /\ useTrim = FALSE /\ useList = FALSE
    /\ maxDepth = 1 /\ node = ZeroNode /\ partIndex = 1 /\ current = NilNode
    /\ extracted = NilNode /\ result = NilNode /\ out = <<>> /\ exit = -1

Split ==
    /\ pc = "split"
    /\ parts' = splitPath(pattern)
    /\ pc' = "split-done"
    /\ UNCHANGED <<args, version, useTrim, useList, maxDepth, node, pattern,
                   partIndex, current, extracted, result, out, exit>>

NextSplit == Split

SpecSplit == InitSplit /\ [][NextSplit]_vars

(***************************************************************************)
(* wrapInPath alone: every pattern of at most MaxWrapParts pieces.         *)
(***************************************************************************)
WrapPieces == { <<"a">>, <<".">>, <<"[", "0", "]">>, <<"[", "2", "]">>,
                <<"[", "+", "1", "]">>, <<"[", "-", "1", "]">>,
                <<"[", "x", "]">>, <<"[", "]">> }

WrapPatterns == { Concat(ps) : ps \in SeqsUpTo(WrapPieces, MaxWrapParts) }

InitWrap ==
    /\ args \in { <<p>> : p \in WrapPatterns }
    /\ extracted \in {V, Sequence(<<V, W>>)}
    /\ pc = "wrap"
    /\ result = NilNode
    /\ version = FALSE /\ useTrim = FALSE /\ useList = FALSE /\ maxDepth = 1
    /\ node = ZeroNode /\ pattern = <<>> /\ parts = <<>> /\ partIndex = 1
    /\ current = NilNode /\ out = <<>> /\ exit = -1

Wrap ==
    /\ pc = "wrap"
    /\ result' = wrapInPath(node, args[1], extracted)
    /\ pc' = "wrap-done"
    /\ UNCHANGED <<args, version, useTrim, useList, maxDepth, node, pattern,
                   parts, partIndex, current, extracted, out, exit>>

NextWrap == Wrap

SpecWrap == InitWrap /\ [][NextWrap]_vars

(***************************************************************************)
(* listNode alone: trees nested at most MaxListDepth deep whose mappings   *)
(* and sequences hold one or two children.                                 *)
(***************************************************************************)
RECURSIVE ListTrees(_)
ListTrees(d) ==
    IF d = 0 THEN {V}
    ELSE LET sub == ListTrees(d - 1)
             \* of two children, one is nested at most once
             flat == ListTrees(IF d = 1 THEN 0 ELSE 1)
             pairs == (sub \X flat) \cup (flat \X sub)
         IN  {V}
             \cup { Mapping(<<Str(<<"a">>), x>>) : x \in sub }
             \cup { Mapping(<<Str(<<"a">>), xy[1], Str(<<"b">>), xy[2]>>) : xy \in pairs }
             \cup { Sequence(<<x>>) : x \in sub }
             \cup { Sequence(<<xy[1], xy[2]>>) : xy \in pairs }

ListNodes ==
    LET trees == ListTrees(MaxListDepth)
    IN  trees \cup { Document(t) : t \in trees }

ListDepths == (-1)..(MaxListDepth + 1)

InitList ==
    /\ node \in ListNodes
    /\ maxDepth \in ListDepths
    /\ pc = "list"
    /\ out = <<>>
    /\ args = <<>> /\ version = FALSE /\ useTrim = FALSE /\ useList = TRUE
    /\ pattern = <<>> /\ parts = <<>> /\ partIndex = 1 /\ current = NilNode
    /\ extracted = NilNode /\ result = NilNode /\ exit = -1

ListAll ==
    /\ pc = "list"
    /\ out' = PrintLines(listNode(node, <<>>, maxDepth, 0))
    /\ pc' = "list-done"
    /\ UNCHANGED <<args, version, useTrim, useList, maxDepth, node, pattern,
                   parts, partIndex, current, extracted, result, exit>>

NextList == ListAll

SpecList == InitList /\ [][NextList]_vars

(***************************************************************************)
(* C1: wrap, then resolve again.                                           *)
(***************************************************************************)
\* main has wrapped the resolved node in its path
Wrapped == pc = "exit" /\ ~version /\ exit = 0 /\ ~useList /\ ~useTrim

\* C1: whenever the path resolves to a node m, resolving the same path in
\* wrapInPath's tree succeeds and gives a node equal to m.
RoundTrip ==
    Wrapped =>
        /\ extractPath(result, args[1]) # NilNode
        /\ extractPath(result, args[1]) = extracted

(***************************************************************************)
(* C2: the root path.                                                      *)
(***************************************************************************)
IsRootPath(p) == p \in { <<>>, <<".">> }

AtSegment == pc = "loop" /\ partIndex <= Len(parts)

\* s is "[k]" with k a well-formed integer, 0 <= k < n
IsIndexBelow(s, n) ==
    /\ Len(s) >= 2 /\ s[1] = "[" /\ s[Len(s)] = "]"
    /\ AtoiOk(SubSeq(s, 2, Len(s) - 1))
    /\ AtoiVal(SubSeq(s, 2, Len(s) - 1)) >= 0
    /\ AtoiVal(SubSeq(s, 2, Len(s) - 1)) < n

\* C3: against a Sequence of length n, the step advances to element k and
\* consumes the segment exactly when the segment is "[k]", k a well-formed
\* non-negative integer below n; any other segment ends the resolution with
\* not-found.
SequenceStep ==
    [][ (AtSegment /\ current.Kind = "SequenceNode") =>
            IF IsIndexBelow(parts[partIndex], Len(current.Content))
            THEN /\ pc' = "loop"
                 /\ partIndex' = partIndex + 1
                 /\ current' = current.Content[
                        AtoiVal(SubSeq(parts[partIndex], 2, Len(parts[partIndex]) - 1)) + 1]
            ELSE /\ pc' = "extracted"
                 /\ extracted' = NilNode ]_vars

\* C3 witness: "[1]" has taken the walk to the second element of a sequence
SequenceStepWitness ==
    /\ pc = "loop"
    /\ partIndex = 2
    /\ parts[1] = <<"[", "1", "]">>
    /\ node.Content[1].Kind = "SequenceNode"
    /\ Len(node.Content[1].Content) = 2
    /\ current = node.Content[1].Content[2]

(***************************************************************************)
(* C4: the mapping step.                                                   *)
(***************************************************************************)
\* the pairs of mapping content c whose key text is s
PairsMatching(c, s) == { j \in 1..(Len(c) \div 2) : c[2 * j - 1].Value = s }

\* C4: against a Mapping, the step advances to the value of the first pair,
\* in document order, whose key text equals the segment, and consumes the
\* segment; if no key equals it the resolution ends with not-found.
MappingStep ==
    [][ (AtSegment /\ current.Kind = "MappingNode") =>
            LET hits == PairsMatching(current.Content, parts[partIndex])
            IN  IF hits = {}
                THEN /\ pc' = "extracted"
                     /\ extracted' = NilNode
                ELSE /\ pc' = "loop"
                     /\ partIndex' = partIndex + 1
                     /\ current' = current.Content[
                            2 * (CHOOSE j \in hits : \A m \in hits : j <= m)]
       ]_vars

\* C4 witness: a bracketed segment has matched a key that occurs twice, and
\* the walk stands on the first pair's value
MappingStepWitness ==
    /\ pc = "loop"
    /\ partIndex = 2
    /\ parts[1] = <<"[", "0", "]">>
    /\ node.Content[1] = Mapping(<<Str(<<"[", "0", "]">>), V, Str(<<"[", "0", "]">>), W>>)
    /\ current = V

(***************************************************************************)
(* C5: no partial match.                                                   *)
(***************************************************************************)
IsContainerKind(k) == k \in {"DocumentNode", "MappingNode", "SequenceNode"}

\* C5: the loop returns a node only once every segment has been consumed, and
\* that node is the one reached; a node that is no Document, Mapping or
\* Sequence, with a segment remaining, ends the resolution with not-found.
NoPartialMatch ==
    [][ pc = "loop" =>
            /\ (pc' = "extracted" /\ extracted' # NilNode) =>
                   (partIndex > Len(parts) /\ extracted' = current)
            /\ (partIndex <= Len(parts) /\ ~IsContainerKind(current.Kind)) =>
                   (pc' = "extracted" /\ extracted' = NilNode)
       ]_vars

\* C5 witness: one segment consumed, a scalar reached, a segment remaining:
\* not-found
NoPartialMatchWitness ==
    /\ pc = "extracted"
    /\ extracted = NilNode
    /\ current.Kind = "ScalarNode"
    /\ partIndex = 2
    /\ Len(parts) >= 2

(***************************************************************************)
(* C11: termination and progress of the walk.                              *)
(***************************************************************************)
\* the number of nodes of a tree
RECURSIVE NodeSize(_)
RECURSIVE ContentSize(_)
NodeSize(n) == 1 + ContentSize(n.Content)

ContentSize(c) == IF c = <<>> THEN 0 ELSE NodeSize(Head(c)) + ContentSize(Tail(c))

\* what is left of the walk: the segments not yet consumed, then the size of
\* the current node (which lies within the document)
WalkRank(i, c) == (Len(parts) + 1 - i) * (NodeSize(node) + 1) + NodeSize(c)

\* a Document wrapper that holds no child
ChildlessDocument == Node("DocumentNode", <<>>, "", <<>>)

\* C11: extractPath terminates: the loop can always take its next pass, and
\* every pass that does not return lowers a rank that is never negative.  A
\* pass that does not return either replaces a Document wrapper that has a
\* child by that child, the segment index unchanged, or advances the segment
\* index by exactly one; a Document wrapper with no child yields not-found.
\* The segment index never decreases and no segment is skipped.
WalkProgress ==
    /\ ExtractIter(<< <<"a">> >>, ChildlessDocument, 1) = Return(NilNode)
    /\ extractPath(ChildlessDocument, <<"a">>) = NilNode
    /\ [](pc = "loop" =>
            /\ ENABLED (ExtractStep \/ ExtractDone)
            /\ partIndex >= 1
            /\ partIndex <= Len(parts) + 1
            /\ WalkRank(partIndex, current) >= 0)
    /\ [][ pc = "loop" =>
            \/ pc' = "extracted"
            \/ /\ pc' = "loop"
               /\ parts' = parts
               /\ WalkRank(partIndex', current') < WalkRank(partIndex, current)
               /\ IF current.Kind = "DocumentNode"
                  THEN /\ Len(current.Content) > 0
                       /\ current' = current.Content[1]
                       /\ partIndex' = partIndex
                  ELSE partIndex' = partIndex + 1
       ]_vars

\* C11 witness: the Document wrapper was replaced by its child with the first
\* segment still to be processed, and the walk then advanced by one segment
\* of two
WalkProgressWitness ==
    /\ pc = "loop"
    /\ node.Kind = "DocumentNode"
    /\ Len(parts) = 2
    /\ partIndex = 2
    /\ current \in { node.Content[1].Content[k] : k \in 1..Len(node.Content[1].Content) }

(***************************************************************************)
(* C6: the splitter's result.                                              *)
(***************************************************************************)
\* character i lies inside brackets: some "[" before it has no "]" after it
\* and before i
InsideBrackets(p, i) ==
    \E j \in 1..(i - 1) : p[j] = "[" /\ \A k \in (j + 1)..(i - 1) : p[k] # "]"

IsSeparator(p, i) == p[i] = "." /\ ~InsideBrackets(p, i)

IsOpening(p, i) == p[i] = "[" /\ ~InsideBrackets(p, i)

IsClosing(p, i) == p[i] = "]" /\ InsideBrackets(p, i)

\* a segment may begin or end between characters i and i+1
Boundary(p, i) ==
    \/ i = 0
    \/ i = Len(p)
    \/ IsSeparator(p, i)
    \/ IsClosing(p, i)
    \/ IsSeparator(p, i + 1)
    \/ IsOpening(p, i + 1)

\* characters lo..hi are one run of text between two boundaries
IsRun(p, lo, hi) ==
    /\ lo <= hi
    /\ Boundary(p, lo - 1)
    /\ Boundary(p, hi)
    /\ \A i \in lo..(hi - 1) : ~Boundary(p, i)
    /\ ~IsSeparator(p, lo)

RECURSIVE RunsFrom(_, _)
RunsFrom(p, lo) ==
    IF lo > Len(p) THEN <<>>
    ELSE IF \E hi \in lo..Len(p) : IsRun(p, lo, hi)
         THEN LET hi == CHOOSE h \in lo..Len(p) : IsRun(p, lo, h)
              IN  <<SubSeq(p, lo, hi)>> \o RunsFrom(p, hi + 1)
         ELSE RunsFrom(p, lo + 1)

\* C6: splitPath returns, in order, exactly the non-empty runs of text
\* delimited by a "." outside brackets, an opening "[" and the closing "]" of
\* an open bracket; no segment is empty; and the three examples of the claim.
SplitterResult ==
    /\ pc = "split-done" =>
          /\ parts = RunsFrom(pattern, 1)
          /\ \A k \in 1..Len(parts) : parts[k] # <<>>
    /\ splitPath(<<"a", ".", "b", "[", "2", "]", ".", "c">>)
          = << <<"a">>, <<"b">>, <<"[", "2", "]">>, <<"c">> >>
    /\ splitPath(<<"[", "0", "]", ".", "x">>) = << <<"[", "0", "]">>, <<"x">> >>
    /\ splitPath(<<>>) = <<>>

\* C6 witness: consecutive dots, then a bracket token holding a dot
SplitterResultWitness ==
    /\ pc = "split-done"
    /\ pattern = <<".", ".", "[", ".", "]">>
    /\ parts = << <<"[", ".", "]">> >>

(***************************************************************************)
(* C7: the shape of the wrapped tree.                                      *)
(***************************************************************************)
\* the segments wrapInPath works on
WrapSegments == splitPath(StripDot(args[1]))

BracketContent(s) == SubSeq(s, 2, Len(s) - 1)

HasBrackets(s) == Len(s) >= 2 /\ s[1] = "[" /\ s[Len(s)] = "]"

\* s is a bracketed non-negative integer
IsIndexSegment(s) ==
    HasBrackets(s) /\ AtoiOk(BracketContent(s)) /\ AtoiVal(BracketContent(s)) >= 0

\* s is a bracket token, but no bracketed non-negative integer
IsBadIndexSegment(s) == HasBrackets(s) /\ ~IsIndexSegment(s)

IsNullScalar(n) ==
    n.Kind = "ScalarNode" /\ n.Value = <<"n", "u", "l", "l">> /\ n.Tag = "!!null"

IsStringScalar(n, text) ==
    n.Kind = "ScalarNode" /\ n.Value = text /\ n.Tag = "!!str"

\* t is the chain of segments ps[i], ps[i+1], ... around leaf, outermost first
RECURSIVE IsChain(_, _, _, _)
IsChain(t, ps, i, leaf) ==
    IF i > Len(ps) THEN t = leaf
    ELSE IF HasBrackets(ps[i])
         THEN LET k == AtoiVal(BracketContent(ps[i]))
              IN  /\ t.Kind = "SequenceNode"
                  /\ Len(t.Content) = k + 1
                  /\ \A j \in 1..k : IsNullScalar(t.Content[j])
                  /\ IsChain(t.Content[k + 1], ps, i + 1, leaf)
         ELSE /\ t.Kind = "MappingNode"
              /\ Len(t.Content) = 2
              /\ IsStringScalar(t.Content[1], ps[i])
              /\ IsChain(t.Content[2], ps, i + 1, leaf)

\* C7: when every segment is a bare key or a bracketed non-negative integer,
\* wrapInPath returns the chain of one new node per segment, outermost first:
\* a one-pair Mapping keyed by the segment for a key, a Sequence of k nulls
\* and the inner node for [k]; with the resolved node as its leaf (and the
\* resolved node itself when there is no segment).
WrappedShape ==
    (/\ pc = "wrap-done"
     /\ \A i \in 1..Len(WrapSegments) : ~IsBadIndexSegment(WrapSegments[i]))
        => IsChain(result, WrapSegments, 1, extracted)

\* C7 witness: "a[2]" around a sequence: {a: [null, null, [v, w]]}
WrappedShapeWitness ==
    /\ pc = "wrap-done"
    /\ args = << <<"a", "[", "2", "]">> >>
    /\ extracted = Sequence(<<V, W>>)
    /\ result.Kind = "MappingNode"
    /\ Len(result.Content[2].Content) = 3
    /\ result.Content[2].Content[3] = extracted

(***************************************************************************)
(* C8: a bracket that holds no non-negative integer.                       *)
(***************************************************************************)
\* C8: if some bracketed segment's content does not parse as a non-negative
\* integer (not a number, empty, or negative), wrapInPath returns the
\* resolved node itself, nothing built around it.
BadIndexReturnsExtracted ==
    (/\ pc = "wrap-done"
     /\ \E i \in 1..Len(WrapSegments) : IsBadIndexSegment(WrapSegments[i]))
        => result = extracted

(***************************************************************************)
(* C9: the depth-bounded listing.                                          *)
(***************************************************************************)
\* the entries directly under n, in document order: <<name, child>>
Entries(n) ==
    CASE n.Kind = "MappingNode" ->
            [j \in 1..(Len(n.Content) \div 2) |->
                <<n.Content[2 * j - 1].Value, n.Content[2 * j]>>]
      [] n.Kind = "SequenceNode" ->
            [j \in 1..Len(n.Content) |->
                << <<"[">> \o Itoa(j - 1) \o <<"]">>, n.Content[j] >>]
      [] OTHER -> <<>>

\* the places below n: <<j>> is the j-th entry, <<j, k>> the k-th under it, ...
RECURSIVE PlacesBelow(_)
PlacesBelow(n) ==
    UNION { {<<j>>} \cup { <<j>> \o q : q \in PlacesBelow(Entries(n)[j][2]) }
            : j \in 1..Len(Entries(n)) }

RECURSIVE EntryAt(_, _)
EntryAt(n, place) ==
    IF Len(place) = 1 THEN Entries(n)[place[1]]
    ELSE EntryAt(Entries(n)[place[1]][2], Tail(place))

\* document pre-order: an entry comes before what is under it, and before
\* the entries after it
Before(p, q) ==
    \/ Len(p) < Len(q) /\ SubSeq(q, 1, Len(p)) = p
    \/ \E k \in 1..Len(p) :
          /\ k <= Len(q)
          /\ p[k] < q[k]
          /\ \A m \in 1..(k - 1) : p[m] = q[m]

Spaces(k) == [i \in 1..k |-> " "]

\* a Document wrapper is no level of its own
ListStart(n) ==
    IF n.Kind = "DocumentNode" /\ Len(n.Content) > 0 THEN n.Content[1] ELSE n

\* the places at nesting depth d < N (every place when N = 0)
PlacesListed(n, N) ==
    { place \in PlacesBelow(ListStart(n)) : N = 0 \/ Len(place) - 1 < N }

ExitOutcome ==
    (pc = "exit" /\ ~version) =>
        IF args = <<>>
        THEN exit = 1 /\ out = <<PrintUsage>>
        ELSE IF extractPath(node, args[1]) = NilNode
        THEN exit = 1 /\ out = <<PrintNotFound(args[1])>>
        ELSE /\ exit = 0
             /\ useList =>
                   /\ out = PrintLines(listNode(extractPath(node, args[1]),
                                                <<>>, maxDepth, 0))
                   /\ \A k \in 1..Len(out) : out[k].print = "line"
             /\ ~useList => (Len(out) = 1 /\ out[1].print = "yaml")

\* C10 witness: --list and --trim together, on a path that resolves to a
\* mapping: exit 0, the listing alone
ExitOutcomeWitness ==
    /\ pc = "exit"
    /\ ~version /\ useList /\ useTrim
    /\ extracted.Kind = "MappingNode"
    /\ exit = 0
    /\ Len(out) >= 1
    /\ out[1].print = "line"

====
